---------------------------- MODULE Spec2Model ----------------------------
(***************************************************************************)
(* A model of mt19937.py: the MT19937 generator class (seed expansion,     *)
(* extract_number, twist) and the module-level untemper function.          *)
(*                                                                         *)
(* Python integers are unbounded.  A non-negative integer is modelled as   *)
(* the set of the positions of its 1 bits (bit 0 is the least significant  *)
(* one), so that no width is built into a value: a value is a 32-bit word  *)
(* exactly when its set lies within 0..31.  A possibly negative integer    *)
(* (a constructor argument, the result of ~) is a record [neg, bits]: when *)
(* neg is TRUE the integer is ~v for the non-negative v with those bits.   *)
(***************************************************************************)
EXTENDS Integers, Sequences, FiniteSets

VARIABLES
    \* the generator object (myprng in the demonstration)
    seed,      \* the argument it was constructed with
    MT,        \* self.MT, a function on 0..n-1
    index,     \* self.index
    ret,       \* the value its last extract_number call returned
    calls,     \* number of its completed extract_number calls
    twists,    \* number of twist invocations those calls made
    \* the reference generator whose outputs are observed
    rseed, rMT, rindex,
    \* the demonstration driver
    pc,        \* the loop it is in
    i,         \* the loop counter
    count1, count2,
    f_ref,     \* f
    f2, r1, r2,
    \* one word taken through temper / untemper and their steps
    y0,        \* the word started from
    cur,       \* the current value
    ops        \* the operations applied to y0 so far, in order

gen_vars == <<seed, MT, index, ret, calls, twists>>
ref_vars == <<rseed, rMT, rindex>>
main_vars == <<pc, i, count1, count2, f_ref, f2, r1, r2>>
word_vars == <<y0, cur, ops>>
vars == <<gen_vars, ref_vars, main_vars, word_vars>>

---------------------------------------------------------------------------
(* Arithmetic on bit sets. *)

Xor(x, y) == (x \ y) \cup (y \ x)

And(x, y) == x \cap y

Shl(x, k) == {j + k : j \in x}

Shr(x, k) == {j - k : j \in {e \in x : e >= k}}

Odd(x) == 0 \in x

RECURSIVE Add(_, _)
Add(x, y) == IF y = {} THEN x ELSE Add(Xor(x, y), Shl(And(x, y), 1))

RECURSIVE Mul(_, _)
Mul(x, y) ==
    IF y = {} THEN {}
    ELSE LET e == CHOOSE k \in y : TRUE
         IN  Add(Shl(x, e), Mul(x, y \ {e}))

\* the bits of a small natural number given as a numeral
Nat2Bits(k) == {j \in 0..30 : (k \div (2^j)) % 2 = 1}

\* the bits of a hexadecimal literal given by its digits, most significant first
Hex(ds) == UNION {Shl(Nat2Bits(ds[k]), 4 * (Len(ds) - k)) : k \in 1..Len(ds)}

\* the bits of a decimal literal given by its digits, most significant first
RECURSIVE Dec(_)
Dec(ds) ==
    IF ds = <<>> THEN {}
    ELSE LET p == Dec(SubSeq(ds, 1, Len(ds) - 1))
         IN  Add(Add(Shl(p, 3), Shl(p, 1)), Nat2Bits(ds[Len(ds)]))

Pos(x) == [neg |-> FALSE, bits |-> x]

Invert(x) == [neg |-> TRUE, bits |-> x]

---------------------------------------------------------------------------
(* Class attributes and the constants of __init__. *)

u == 11
d == Hex(<<15, 15, 15, 15, 15, 15, 15, 15>>)
s == 7
b == Hex(<<9, 13, 2, 12, 5, 6, 8, 0>>)
t == 15
c == Hex(<<14, 15, 12, 6, 0, 0, 0, 0>>)
l == 18
n == 624
w == 32
r == 31
f == Dec(<<1, 8, 1, 2, 4, 3, 3, 2, 5, 3>>)
m == 397
a == Hex(<<9, 9, 0, 8, 11, 0, 13, 15>>)

\* x & 0xFFFFFFFF, for an integer x of either sign
my_int32(x) ==
    IF x.neg THEN Hex(<<15, 15, 15, 15, 15, 15, 15, 15>>) \ x.bits
    ELSE And(x.bits, Hex(<<15, 15, 15, 15, 15, 15, 15, 15>>))

\* (1 << r) - 1
lower_mask == {k \in 0..(r - 1) : TRUE}

upper_mask == my_int32(Invert(lower_mask))

---------------------------------------------------------------------------
(* __init__ *)

\* a bug __init__ could have: the "+ i" of the recurrence left out
init_word_noadd(prev, k) ==
    my_int32(Pos(Mul(f, Xor(prev, Shr(prev, w - 2)))))

\* the value stored in self.MT[k], from prev = self.MT[k - 1]
init_word(prev, k) ==
    my_int32(Pos(Add(Mul(f, Xor(prev, Shr(prev, w - 2))), Nat2Bits(k))))

init_step(mt, k) == [mt EXCEPT ![k] = init_word(mt[k - 1], k)]

\* for i in range(lo, hi): the iterations run in increasing order of i.  The
\* range is split in two halves run one after the other, and the result of the
\* first half is bound as a value before the second half starts, which keeps
\* the nesting of the evaluation logarithmic in the length of the range.
RECURSIVE init_loop(_, _, _)
init_loop(mt, lo, hi) ==
    IF hi <= lo THEN mt
    ELSE IF hi = lo + 1 THEN init_step(mt, lo)
    ELSE LET mid == (lo + hi) \div 2
         IN  CHOOSE res \in {init_loop(half, mid, hi) :
                                half \in {init_loop(mt, lo, mid)}} : TRUE

\* a bug __init__ could have: the seed stored without my_int32
init_MT_notrunc(sd) ==
    init_loop([[k \in 0..(n - 1) |-> {}] EXCEPT ![0] = sd.bits], 1, n)

\* self.MT after __init__(sd)
init_MT(sd) ==
    init_loop([[k \in 0..(n - 1) |-> {}] EXCEPT ![0] = my_int32(sd)], 1, n)

\* a bug __init__ could have: the cursor started one further
init_index_off == n + 2

\* self.index after __init__
init_index == n + 1

---------------------------------------------------------------------------
(* twist *)

\* the value the iteration k of twist stores in self.MT[k], reading mt
twist_word(mt, k) ==
    LET x   == Add(And(mt[k], upper_mask), And(mt[(k + 1) % n], lower_mask))
        xA0 == Shr(x, 1)
        xA  == IF Odd(x) THEN Xor(xA0, a) ELSE xA0
    IN  Xor(mt[(k + m) % n], xA)

twist_step(mt, k) == [mt EXCEPT ![k] = twist_word(mt, k)]

\* for i in range(lo, hi), in increasing order of i, in place
RECURSIVE twist_loop(_, _, _)
twist_loop(mt, lo, hi) ==
    IF hi <= lo THEN mt
    ELSE IF hi = lo + 1 THEN twist_step(mt, lo)
    ELSE LET mid == (lo + hi) \div 2
         IN  CHOOSE res \in {twist_loop(half, mid, hi) :
                                half \in {twist_loop(mt, lo, mid)}} : TRUE

\* a bug twist could have: every word computed from the state before the
\* pass (read all, then write all)
twist_copy(mt) == [k \in 0..(n - 1) |-> twist_word(mt, k)]

twist(mt) == twist_loop(mt, 0, n)

---------------------------------------------------------------------------
(* extract_number *)

\* the four tempering statements, one operator per statement
temper_u(y) == Xor(y, And(Shr(y, u), d))

temper_s(y) == Xor(y, And(Shl(y, s), b))

temper_t(y) == Xor(y, And(Shl(y, t), c))

temper_l(y) == Xor(y, Shr(y, l))

\* the tempering of extract_number, with the my_int32 of its return
temper(y) == my_int32(Pos(temper_l(temper_t(temper_s(temper_u(y))))))

\* a bug extract_number could have: twisting on every call
extract_always_twist(mt, ix) ==
    LET mt1 == twist(mt)
        ix1 == IF ix >= n THEN 0 ELSE ix
    IN  [MT |-> mt1, index |-> ix1 + 1, ret |-> temper(mt1[ix1]), twisted |-> TRUE]

\* a bug extract_number could have: the cursor reset to 1 instead of 0
extract_reset_one(mt, ix) ==
    LET tw  == ix >= n
        mt1 == IF tw THEN twist(mt) ELSE mt
        ix1 == IF tw THEN 1 ELSE ix
    IN  [MT |-> mt1, index |-> ix1 + 1, ret |-> temper(mt1[ix1]), twisted |-> tw]

\* extract_number on a generator whose fields are mt and ix: the fields after
\* the call, the value returned, and whether the call invoked twist
extract(mt, ix) ==
    LET tw  == ix >= n
        mt1 == IF tw THEN twist(mt) ELSE mt
        ix1 == IF tw THEN 0 ELSE ix
    IN  [MT |-> mt1, index |-> ix1 + 1, ret |-> temper(mt1[ix1]), twisted |-> tw]

---------------------------------------------------------------------------
(* untemper *)

untemper_l(y) == Xor(y, Shr(y, l))

untemper_t(y) == Xor(y, And(Shl(y, t), c))

\* a bug untemper could have: the mask of the s statement left out
untemper_s_nomask(y) == Xor(y, Shl(y, s))

untemper_s(y) == Xor(y, And(Shl(y, s), b))

untemper_u(y) == Xor(y, And(Shr(y, u), d))

rep_s == 7
rep_u == 3

\* the statement of untemper that undoes step k of the tempering
untemper_step(k, y) ==
    CASE k = "u" -> untemper_u(y)
      [] k = "s" -> untemper_s(y)
      [] k = "t" -> untemper_t(y)
      [] k = "l" -> untemper_l(y)

\* for i in range(j): that statement
RECURSIVE untemper_passes(_, _, _)
untemper_passes(k, j, y) ==
    IF j = 0 THEN y ELSE untemper_passes(k, j - 1, untemper_step(k, y))

\* a bug untemper could have: one pass of the s statement too few
untemper_short(y) ==
    untemper_passes("u", rep_u,
        untemper_passes("s", rep_s - 1, untemper_t(untemper_l(y))))

untemper(y) ==
    untemper_passes("u", rep_u,
        untemper_passes("s", rep_s, untemper_t(untemper_l(y))))

---------------------------------------------------------------------------
(* Values of the variables a specification does not use. *)

NoGenerator ==
    /\ seed = Pos({}) /\ MT = <<>> /\ index = 0
    /\ ret = {} /\ calls = 0 /\ twists = 0

NoReference == rseed = Pos({}) /\ rMT = <<>> /\ rindex = 0

NoMain ==
    /\ pc = "none" /\ i = 0 /\ count1 = 0 /\ count2 = 0
    /\ f_ref = {} /\ f2 = {} /\ r1 = {} /\ r2 = {}

NoWord == y0 = {} /\ cur = {} /\ ops = <<>>

---------------------------------------------------------------------------
(* Spec: one generator, constructed from a seed and then only extracted from. *)

MaxCalls == 1250

\* 0, 1, 0xFFFFFFFF, -1 and 2^32 + 5
Seeds == {Pos({}), Pos({0}), Pos(d), Invert({}), Pos({0, 2, 32})}

\* the fields of mt19937(sd)
Construct(sd) ==
    /\ seed = sd
    /\ MT = init_MT(sd)
    /\ index = init_index
    /\ ret = {}
    /\ calls = 0
    /\ twists = 0

Init ==
    /\ \E sd \in Seeds : Construct(sd)
    /\ NoReference /\ NoMain /\ NoWord

\* one call of myprng.extract_number()
Extract(e) ==
    /\ MT' = e.MT
    /\ index' = e.index
    /\ ret' = e.ret
    /\ twists' = IF e.twisted THEN twists + 1 ELSE twists
    /\ calls' = calls + 1
    /\ UNCHANGED seed

extract_number ==
    /\ calls < MaxCalls
    /\ \E e \in {extract(MT, index)} : Extract(e)
    /\ UNCHANGED <<ref_vars, main_vars, word_vars>>

Next == extract_number

Spec == Init /\ [][Next]_vars

---------------------------------------------------------------------------
(* Properties of Spec. *)

Word32 == 0..31

\* C3: on a generator freshly constructed by mt19937(seed), twist is invoked
\* exactly in the extract_number calls number 1, 625, 1249, ... (1 + 624*j):
\* after c completed calls the number of twists is the number of j >= 0 with
\* 1 + 624*j <= c; so after 624 calls there was one twist, after 625 two.
C3_TwistCalls == twists = (calls + 623) \div 624

C3_Witness == calls = 625 /\ twists = 2 /\ index = 1

\* C4, as stated: constructed with seed 0, the first value extract_number
\* returns is 1608637542.
C4_Original ==
    (seed = Pos({}) /\ calls = 1) => ret = Dec(<<1, 6, 0, 8, 6, 3, 7, 5, 4, 2>>)

\* C4, amended: constructed with seed 0, the first value extract_number
\* returns is 2357136044.
C4_First ==
    (seed = Pos({}) /\ calls = 1) => ret = Dec(<<2, 3, 5, 7, 1, 3, 6, 0, 4, 4>>)

C4_Witness == seed = Pos({}) /\ calls = 1 /\ twists = 1

\* C5, as stated: at rest the cursor satisfies 0 <= index <= 624, and seed
\* initialization leaves it equal to 624.
C5_Original ==
    /\ index \in 0..624
    /\ calls = 0 => index = 624

\* C5, amended: seed initialization leaves the cursor equal to 625, and after
\* every completed extract_number call 1 <= index <= 624; so at rest
\* 0 <= index <= 625.
C5_Cursor ==
    /\ index \in 0..625
    /\ calls = 0 => index = 625
    /\ calls > 0 => index \in 1..624

C5_Witness == calls = 624 /\ index = 624

\* the sums x the twist taking mt0 to mt1 formed: iteration k adds the top
\* bit of the old MT[k] to the low 31 bits of MT[(k+1) mod 624], which for
\* k = 623 is the already rewritten MT[0]
C7_Sums(mt0, mt1) ==
    {Add(And(mt0[k], upper_mask),
         And(IF k = 623 THEN mt1[0] ELSE mt0[k + 1], lower_mask)) : k \in 0..623}

C7_Words == DOMAIN MT = 0..623 /\ \A k \in 0..623 : MT[k] \subseteq Word32

C7_Twist == twists' # twists => \A x \in C7_Sums(MT, MT') : x \subseteq Word32

\* C7: for any integer seed, also one outside 0..2^32-1, and after any number
\* of extract_number calls, MT has exactly 624 elements, each an unsigned
\* 32-bit word; and no sum x formed by a twist exceeds 2^32 - 1.
C7_StateArray == []C7_Words /\ [][C7_Twist]_vars

C7_Witness == seed = Pos({0, 2, 32}) /\ twists = 2 /\ MT[0] # {}

\* C8: extract_number called with index = k < 624 performs no twist, leaves
\* every element of MT unchanged, sets index to k + 1 and returns
\* temper(MT[k]), a value in 0..2^32-1; called with index >= 624 it twists,
\* returns temper of the MT[0] the twist produced, and leaves index = 1.
C8_Call ==
    calls' = calls + 1 =>
        /\ index < 624 =>
            /\ twists' = twists
            /\ MT' = MT
            /\ index' = index + 1
            /\ ret' = temper(MT[index])
            /\ ret' \subseteq Word32
        /\ index >= 624 =>
            /\ twists' = twists + 1
            /\ MT' = twist(MT)
            /\ index' = 1
            /\ ret' = temper(MT'[0])
            /\ ret' \subseteq Word32

C8_Extraction == [][C8_Call]_vars

C8_Witness == calls = 626 /\ index = 2 /\ twists = 2

\* g(p, q) = ((p & 0x80000000) + (q & 0x7FFFFFFF)) >> 1, XORed with
\* 0x9908B0DF when that sum is odd
C9_g(p, q) ==
    LET x == Add(And(p, Hex(<<8, 0, 0, 0, 0, 0, 0, 0>>)),
                 And(q, Hex(<<7, 15, 15, 15, 15, 15, 15, 15>>)))
    IN  IF Odd(x) THEN Xor(Shr(x, 1), Hex(<<9, 9, 0, 8, 11, 0, 13, 15>>))
        ELSE Shr(x, 1)

C9_Closed(S, S2) ==
    /\ \A k \in 0..226 : S2[k] = Xor(S[k + 397], C9_g(S[k], S[k + 1]))
    /\ \A k \in 227..622 : S2[k] = Xor(S2[k - 227], C9_g(S[k], S[k + 1]))
    /\ S2[623] = Xor(S2[396], C9_g(S[623], S2[0]))

\* C9: twist is one left-to-right pass in place: with S the state before and
\* S' the state after, S'[i] = S[i+397] XOR g(S[i], S[i+1]) for 0 <= i <= 226,
\* S'[i] = S'[i-227] XOR g(S[i], S[i+1]) for 227 <= i <= 622, and
\* S'[623] = S'[396] XOR g(S[623], S'[0]).
C9_TwistOrder == [][twists' = twists + 1 => C9_Closed(MT, MT')]_vars

C9_Witness == twists = 2 /\ calls = 625 /\ MT[623] # MT[0]

---------------------------------------------------------------------------
(* SpecWord: temper, untemper and their single statements applied to one   *)
(* 32-bit word.                                                            *)

MaxBits == 2

\* the words with at most k bits set
RECURSIVE Sparse(_)
Sparse(k) ==
    IF k = 0 THEN {{}}
    ELSE LET less == Sparse(k - 1)
         IN  less \cup {x \cup {j} : x \in less, j \in Word32}

\* the words with at most MaxBits bits set or at most MaxBits bits clear
Words == Sparse(MaxBits) \cup {Word32 \ x : x \in Sparse(MaxBits)}

Steps == {"u", "s", "t", "l"}

temper_step(k, y) ==
    CASE k = "u" -> temper_u(y)
      [] k = "s" -> temper_s(y)
      [] k = "t" -> temper_t(y)
      [] k = "l" -> temper_l(y)

\* how often untemper runs the statement that undoes step k
passes(k) ==
    CASE k = "u" -> rep_u
      [] k = "s" -> rep_s
      [] k = "t" -> 1
      [] k = "l" -> 1

InitWord ==
    /\ y0 \in Words
    /\ cur = y0
    /\ ops = <<>>
    /\ NoGenerator /\ NoReference /\ NoMain

\* the tempering of extract_number applied to the current value; "all" tags
\* the whole transform, a step name one statement of it
do_temper ==
    /\ ops \in {<<>>, <<<<"untemper", "all">>>>}
    /\ cur' = temper(cur)
    /\ ops' = Append(ops, <<"temper", "all">>)
    /\ UNCHANGED <<y0, gen_vars, ref_vars, main_vars>>

do_untemper ==
    /\ ops \in {<<>>, <<<<"temper", "all">>>>}
    /\ cur' = untemper(cur)
    /\ ops' = Append(ops, <<"untemper", "all">>)
    /\ UNCHANGED <<y0, gen_vars, ref_vars, main_vars>>

\* one statement of the tempering applied to the word started from
do_temper_step(k) ==
    /\ ops = <<>>
    /\ cur' = temper_step(k, cur)
    /\ ops' = <<<<"temper", k>>>>
    /\ UNCHANGED <<y0, gen_vars, ref_vars, main_vars>>

\* one more pass of the statement of untemper that undoes step k
do_untemper_step(k) ==
    /\ ops # <<>>
    /\ ops[1] = <<"temper", k>>
    /\ Len(ops) - 1 < passes(k)
    /\ cur' = untemper_step(k, cur)
    /\ ops' = Append(ops, <<"untemper", k>>)
    /\ UNCHANGED <<y0, gen_vars, ref_vars, main_vars>>

NextWord ==
    \/ do_temper
    \/ do_untemper
    \/ \E k \in Steps : do_temper_step(k)
    \/ \E k \in Steps : do_untemper_step(k)

SpecWord == InitWord /\ [][NextWord]_vars

\* C1: for every 32-bit word y, untemper(temper(y)) = y and
\* temper(untemper(y)) = y.
C1_RoundTrip ==
    (\/ ops = <<<<"temper", "all">>, <<"untemper", "all">>>>
     \/ ops = <<<<"untemper", "all">>, <<"temper", "all">>>>) => cur = y0

C1_Witness ==
    /\ ops = <<<<"temper", "all">>, <<"untemper", "all">>>>
    /\ cur = y0
    /\ temper(y0) # y0
    /\ Cardinality(y0) >= 30

\* step k of the tempering followed by j passes of its inverse statement
Undone(k, j, y) == untemper_passes(k, j, temper_step(k, y))

\* for every smaller number of passes there is a word that is not recovered
C10_FewerFail ==
    /\ \A j \in 0..6 : \E y \in Words : Undone("s", j, y) # y
    /\ \A j \in 0..2 : \E y \in Words : Undone("u", j, y) # y

\* C10: 7 passes of y ^= (y << 7) & 0x9D2C5680 invert the second tempering
\* step and 3 passes of y ^= (y >> 11) & 0xFFFFFFFF invert the first one, for
\* every 32-bit word, and one pass inverts each of the t = 15 and l = 18
\* steps; with fewer than 7 passes for the s step, or fewer than 3 for the u
\* step, some 32-bit word is not recovered.
C10_Passes ==
    /\ \A k \in Steps :
          (Len(ops) = passes(k) + 1 /\ ops[1] = <<"temper", k>>) => cur = y0
    /\ passes("s") = 7 /\ passes("u") = 3 /\ passes("t") = 1 /\ passes("l") = 1
    /\ C10_FewerFail

C10_Witness ==
    /\ Len(ops) = 7 /\ ops[1] = <<"temper", "s">> /\ cur # y0

---------------------------------------------------------------------------
(* SpecClone: the demonstration driver.  myprng is mt19937(0); the          *)
(* generator whose outputs it observes is a second generator, seeded from  *)
(* RefSeeds (the driver itself observes Python's random module, whose      *)
(* generator is outside this file).  The driver draws count1 values from   *)
(* it, loads the untempered next n values into myprng.MT, draws count2     *)
(* values from both, then compares test_len values drawn from both.        *)

test_len == 20

MidCount1 == 230
MaxCount1 == 623
MaxCount2 == 630

RefSeeds == {Pos({0, 2}), Pos(d)}

Count1s == {0, 1, MidCount1, MaxCount1}

Count2s == {0, MaxCount2}

\* the number of iterations of the loop p
loop_len(p, c1, c2) ==
    CASE p = "burn" -> c1
      [] p = "clone" -> n
      [] p = "discard" -> c2
      [] p = "test" -> test_len

next_loop(p) ==
    CASE p = "burn" -> "clone"
      [] p = "clone" -> "discard"
      [] p = "discard" -> "test"
      [] p = "test" -> "done"

\* where control is once iteration k of loop p is about to be tested: in that
\* loop while k is below its length, else at the start of the next loop that
\* has an iteration to run
RECURSIVE at(_, _, _, _)
at(p, k, c1, c2) ==
    IF p = "done" THEN <<"done", 0>>
    ELSE IF k < loop_len(p, c1, c2) THEN <<p, k>>
    ELSE at(next_loop(p), 0, c1, c2)

\* the reference generator after construction
ConstructRef(sd) ==
    /\ rseed = sd
    /\ rMT = init_MT(sd)
    /\ rindex = init_index

InitClone ==
    /\ Construct(Pos({}))
    /\ \E sd \in RefSeeds : ConstructRef(sd)
    /\ count1 \in Count1s
    /\ count2 \in Count2s
    /\ \E q \in {at("burn", 0, count1, count2)} : pc = q[1] /\ i = q[2]
    /\ f_ref = {} /\ f2 = {} /\ r1 = {} /\ r2 = {}
    /\ NoWord

\* one draw from the reference generator
Draw(e) ==
    /\ rMT' = e.MT
    /\ rindex' = e.index
    /\ UNCHANGED rseed

Goto(p, k) == \E q \in {at(p, k, count1, count2)} : pc' = q[1] /\ i' = q[2]

\* for i in range(count1): f = <next reference value>
burn_step ==
    /\ pc = "burn"
    /\ \E e \in {extract(rMT, rindex)} : Draw(e) /\ f_ref' = e.ret
    /\ Goto("burn", i + 1)
    /\ UNCHANGED <<gen_vars, count1, count2, f2, r1, r2, word_vars>>

\* for i in range(n): myprng.MT[i] = untemper(<next reference value>)
clone_step ==
    /\ pc = "clone"
    /\ \E e \in {extract(rMT, rindex)} :
          /\ Draw(e)
          /\ MT' = [MT EXCEPT ![i] = untemper(e.ret)]
    /\ Goto("clone", i + 1)
    /\ UNCHANGED <<seed, index, ret, calls, twists, count1, count2,
                   f_ref, f2, r1, r2, word_vars>>

\* for i in range(count2): f = <next reference value>; f2 = myprng.extract_number()
discard_step ==
    /\ pc = "discard"
    /\ \E e \in {extract(rMT, rindex)} : Draw(e) /\ f_ref' = e.ret
    /\ \E e \in {extract(MT, index)} : Extract(e) /\ f2' = e.ret
    /\ Goto("discard", i + 1)
    /\ UNCHANGED <<count1, count2, r1, r2, word_vars>>

\* for i in range(20): r1 = <next reference value>; r2 = myprng.extract_number();
\* assert(r1 == r2)
test_step ==
    /\ pc = "test"
    /\ \E e1 \in {extract(rMT, rindex)}, e2 \in {extract(MT, index)} :
          /\ Draw(e1) /\ r1' = e1.ret
          /\ Extract(e2) /\ r2' = e2.ret
          /\ IF e1.ret = e2.ret THEN Goto("test", i + 1)
             ELSE pc' = "assert_failed" /\ i' = i
    /\ UNCHANGED <<count1, count2, f_ref, f2, word_vars>>

NextClone ==
    \/ burn_step
    \/ clone_step
    \/ discard_step
    \/ test_step

SpecClone == InitClone /\ [][NextClone]_vars

\* a draw of the discard loop has been made
Discarded == count2 > 0 /\ (pc \in {"test", "done"} \/ (pc = "discard" /\ i > 0))

\* a draw of the test loop has been made
Tested == pc = "done" \/ (pc = "test" /\ i > 0)

\* C2: a reference generator has produced any number of outputs; its next
\* 624 outputs, untempered, are stored in the MT of a fresh, never extracted
\* generator whose cursor is at the must-twist position.  Then that
\* generator's first extraction performs a twist, and its j-th extraction
\* returns the j-th output of the reference generator after the 624
\* observed ones, for every j >= 1.
C2_Fidelity ==
    /\ pc # "assert_failed"
    /\ Discarded => f2 = f_ref
    /\ Tested => r2 = r1
    /\ calls = 0 => twists = 0 /\ index >= 624
    /\ calls >= 1 => twists >= 1
    /\ calls = 1 => twists = 1

\* the reference generator was one output in, so its cursor was inside the
\* array, when the 624 observed outputs began; all 20 comparisons were made
C2_Witness ==
    /\ pc = "done"
    /\ count1 = 1 /\ count2 = 0
    /\ calls = 20
    /\ twists = 1
    /\ r2 = r1 /\ r2 # {}

---------------------------------------------------------------------------
(* SpecApi: a client of the generator object that stores untempered        *)
(* reference values in myprng.MT[0], MT[1], ... the way the driver does,    *)
(* and may stop after any number of them and call extract_number.          *)

MaxApiCalls == 2

InitApi ==
    /\ Construct(Pos({}))
    /\ \E sd \in RefSeeds : ConstructRef(sd)
    /\ pc = "inject" /\ i = 0
    /\ count1 = 0 /\ count2 = 0
    /\ f_ref = {} /\ f2 = {} /\ r1 = {} /\ r2 = {}
    /\ NoWord

\* myprng.MT[i] = untemper(<next reference value>)
inject_word ==
    /\ pc = "inject"
    /\ i < n
    /\ \E e \in {extract(rMT, rindex)} :
          /\ Draw(e)
          /\ MT' = [MT EXCEPT ![i] = untemper(e.ret)]
    /\ i' = i + 1
    /\ UNCHANGED <<seed, index, ret, calls, twists, pc, count1, count2,
                   f_ref, f2, r1, r2, word_vars>>

\* myprng.extract_number(), which takes no notice of how many words were stored
use_extract ==
    /\ calls < MaxApiCalls
    /\ \E e \in {extract(MT, index)} : Extract(e)
    /\ pc' = "use"
    /\ UNCHANGED <<ref_vars, i, count1, count2, f_ref, f2, r1, r2, word_vars>>

NextApi == inject_word \/ use_extract

SpecApi == InitApi /\ [][NextApi]_vars

\* C6: storing fewer than 624 recovered values is rejected: no extraction
\* succeeds on a generator into which fewer than 624 recovered words were
\* stored.
C6_FailFast == ~(0 < i /\ i < 624 /\ calls > 0 /\ ret \subseteq Word32)

===========================================================================
